---- MODULE Spec2Model ----
(***************************************************************************)
(* A model of CapitalCityScraper (src/index.ts): the traversal             *)
(* list page -> country page -> capital page over one browser session,    *)
(* and the extraction routines that run inside page.evaluate.             *)
(*                                                                         *)
(* Text is a sequence of one-character strings, so that trimming, the two *)
(* value patterns, the comma removal, parseFloat and Number.toString are  *)
(* computed character by character.                                       *)
(***************************************************************************)
EXTENDS Integers, Sequences, FiniteSets, TLC

(***************************************************************************)
(* Text                                                                    *)
(***************************************************************************)

Digits == <<"0", "1", "2", "3", "4", "5", "6", "7", "8", "9">>

DigitSet == {Digits[i] : i \in 1..10}

\* the characters of the class [0-9,.] of both value patterns
NumChars == DigitSet \cup {",", "."}

\* \s and String.prototype.trim: blank and line break stand for the class
WhiteSpace == {" ", "\n"}

\* the characters the regular expression dot does not match
LineTerminators == {"\n"}

\* the value of an optional property that is not there
undefined == <<"<undefined>">>

\* the text of Number.prototype.toString for a NaN
NaNText == <<"N", "a", "N">>

\* the number of consecutive characters of t, from position from on, that lie in set
RECURSIVE RunLen(_, _, _)
RunLen(t, from, set) ==
  IF from <= Len(t) /\ t[from] \in set THEN 1 + RunLen(t, from + 1, set) ELSE 0

\* the number of consecutive characters of t, backwards from position from, that lie in set
RECURSIVE RunLenBack(_, _, _)
RunLenBack(t, from, set) ==
  IF from >= 1 /\ t[from] \in set THEN 1 + RunLenBack(t, from - 1, set) ELSE 0

\* String.prototype.trim
trim(t) ==
  LET lead == RunLen(t, 1, WhiteSpace)
      tail == RunLenBack(t, Len(t), WhiteSpace)
  IN  IF lead = Len(t) THEN <<>> ELSE SubSeq(t, lead + 1, Len(t) - tail)

\* String.prototype.includes
includes(t, part) ==
  \E i \in 0..(Len(t) - Len(part)) : SubSeq(t, i + 1, i + Len(part)) = part

\* text.replace(/,/g, '')
removeCommas(t) == SelectSeq(t, LAMBDA c : c # ",")

\* /^[0-9,.]+\s+km2.*$/ .test(t)
areaRegex(t) ==
  LET n == RunLen(t, 1, NumChars)
      w == RunLen(t, n + 1, WhiteSpace)
  IN  /\ n >= 1
      /\ w >= 1
      /\ Len(t) >= n + w + 3
      /\ SubSeq(t, n + w + 1, n + w + 3) = <<"k", "m", "2">>
      /\ \A i \in (n + w + 4)..Len(t) : t[i] \notin LineTerminators

\* /^[0-9,.]+(\s+\(.*\))?$/ .test(t)
populationRegex(t) ==
  LET n == RunLen(t, 1, NumChars)
      w == RunLen(t, n + 1, WhiteSpace)
  IN  /\ n >= 1
      /\ \/ n = Len(t)
         \/ /\ w >= 1
            /\ Len(t) >= n + w + 2
            /\ t[n + w + 1] = "("
            /\ t[Len(t)] = ")"
            /\ \A i \in (n + w + 2)..(Len(t) - 1) : t[i] \notin LineTerminators

(***************************************************************************)
(* Numbers: parseFloat and Number.prototype.toString.  A number is NaN or *)
(* mant / 10^scale.  The texts the value patterns accept start with       *)
(* [0-9,.] and continue with white space or the end, so that after the    *)
(* comma removal no sign, exponent or Infinity can open the text; figures *)
(* are bounded so that the double is exact.                               *)
(***************************************************************************)

NaN == [nan |-> TRUE, mant |-> 0, scale |-> 0]

RECURSIVE Pow10(_)
Pow10(k) == IF k = 0 THEN 1 ELSE 10 * Pow10(k - 1)

DigitVal(c) == CHOOSE v \in 0..9 : Digits[v + 1] = c

RECURSIVE DigitsVal(_)
DigitsVal(ds) ==
  IF ds = <<>> THEN 0
  ELSE 10 * DigitsVal(SubSeq(ds, 1, Len(ds) - 1)) + DigitVal(ds[Len(ds)])

\* parseFloat: leading white space skipped, then the longest prefix
\* digits [. digits] with a digit in it; NaN when there is none
parseFloat(t) ==
  LET s  == RunLen(t, 1, WhiteSpace)
      ni == RunLen(t, s + 1, DigitSet)
      dot == s + ni + 1 <= Len(t) /\ t[s + ni + 1] = "."
      nf == IF dot THEN RunLen(t, s + ni + 2, DigitSet) ELSE 0
  IN  IF ni + nf = 0 THEN NaN
      ELSE [nan   |-> FALSE,
            mant  |-> DigitsVal(SubSeq(t, s + 1, s + ni) \o SubSeq(t, s + ni + 2, s + ni + 1 + nf)),
            scale |-> nf]

RECURSIVE NatText(_)
NatText(n) ==
  IF n < 10 THEN <<Digits[n + 1]>> ELSE NatText(n \div 10) \o <<Digits[(n % 10) + 1]>>

\* the digits of n, padded with leading zeros to width k
RECURSIVE PadText(_, _)
PadText(n, k) ==
  IF k = 0 THEN <<>> ELSE PadText(n \div 10, k - 1) \o <<Digits[(n % 10) + 1]>>

\* a fraction without its trailing zeros
RECURSIVE Normal(_)
Normal(x) ==
  IF x.scale > 0 /\ x.mant % 10 = 0
    THEN Normal([x EXCEPT !.mant = x.mant \div 10, !.scale = x.scale - 1])
    ELSE x

\* Number.prototype.toString
toString(x) ==
  IF x.nan THEN NaNText
  ELSE LET y == Normal(x)
           p == Pow10(y.scale)
       IN  IF y.scale = 0 THEN NatText(y.mant)
           ELSE NatText(y.mant \div p) \o <<".">> \o PadText(y.mant % p, y.scale)

(***************************************************************************)
(* Documents.  A capital page is the sequence of the sibling rows of its  *)
(* settlement infobox: a row carries the mergedtoprow marker or not, and  *)
(* holds header cells (th) and data cells (td), each with its text.       *)
(* A country page is the sequence of the rows of its country infobox: a   *)
(* row has its text and the anchors found under its .infobox-data cells.  *)
(***************************************************************************)

AreaLabel == <<"A", "r", "e", "a">>

PopulationLabel == <<"P", "o", "p", "u", "l", "a", "t", "i", "o", "n">>

CapitalLabel == <<"C", "a", "p", "i", "t", "a", "l">>

\* the rows a '.mergedtoprow th' header with the label in its text belongs to,
\* one entry per such header cell, in document order
RECURSIVE HeaderRows(_, _, _)
HeaderRows(doc, label, from) ==
  IF from > Len(doc) THEN <<>>
  ELSE LET row  == doc[from]
           hits == IF row.merged
                     THEN SelectSeq(row.th, LAMBDA h : includes(h, label))
                     ELSE <<>>
       IN  [k \in 1..Len(hits) |-> from] \o HeaderRows(doc, label, from + 1)

\* the rows after row r up to the next row carrying mergedtoprow
RECURSIVE NextRows(_, _)
NextRows(doc, r) ==
  IF r + 1 <= Len(doc) /\ ~doc[r + 1].merged
    THEN <<r + 1>> \o NextRows(doc, r + 1)
    ELSE <<>>

\* a block that also takes the row the walk stops at
BlockMutant(doc, r) ==
  LET last == r + Len(NextRows(doc, r))
  IN  <<r>> \o NextRows(doc, r) \o (IF last < Len(doc) THEN <<last + 1>> ELSE <<>>)

\* the block of a header: the label row and the rows following it
Block(doc, r) == <<r>> \o NextRows(doc, r)

\* the reduce over the header rows: the blocks, one after the other
RECURSIVE Blocks(_, _)
Blocks(doc, hs) ==
  IF hs = <<>> THEN <<>> ELSE Block(doc, Head(hs)) \o Blocks(doc, Tail(hs))

\* the data cells of the rows, flattened
RECURSIVE Cells(_, _)
Cells(doc, rs) ==
  IF rs = <<>> THEN <<>> ELSE doc[Head(rs)].td \o Cells(doc, Tail(rs))

\* the last of the matching cells instead of the first
FirstOfMutant(values) == values[Len(values)]

\* the cell the value is read from: values[0]

FirstOf(values) == values[1]

\* the text parsed with its commas left in
valueOfMutant(valueText) ==
  IF valueText # <<>> THEN toString(parseFloat(valueText)) ELSE undefined

\* what is made of the text of the chosen cell

valueOf(valueText) ==
  IF valueText # <<>> THEN toString(parseFloat(removeCommas(valueText))) ELSE undefined

\* the rows accumulated for a label: the blocks of all its headers
collectedRows(doc, label) == Blocks(doc, HeaderRows(doc, label, 1))

\* regex.test(text), the pattern passed by its name
test(regex, text) ==
  IF regex = "areaRegex" THEN areaRegex(text) ELSE populationRegex(text)

getValueByLabel(doc, label, regex) ==
  LET rows      == collectedRows(doc, label)
      values    == SelectSeq(Cells(doc, rows), LAMBDA td : test(regex, trim(td)))
      valueText == IF Len(values) > 0 THEN trim(FirstOf(values)) ELSE <<>>
  IN  valueOf(valueText)

getArea(doc) == getValueByLabel(doc, AreaLabel, "areaRegex")

getPopulation(doc) == getValueByLabel(doc, PopulationLabel, "populationRegex")

\* no capital link
null == [cityName |-> "null", cityUrl |-> "null"]

\* tr.querySelector('.infobox-data a'): the first anchor of the row, or null
linkOfRow(tr) == IF tr.links # <<>> THEN tr.links[1] ELSE null

\* the link of the first row, null or not
findLinkMutant(links) == IF links = <<>> THEN null ELSE links[1]

\* Array.prototype.find of the first link that is not null

findLink(links) ==
  LET found == SelectSeq(links, LAMBDA l : l # null)
  IN  IF found = <<>> THEN null ELSE found[1]

capitalCityLink(infobox) ==
  LET trs   == SelectSeq(infobox, LAMBDA tr : includes(tr.text, CapitalLabel))
      links == [k \in 1..Len(trs) |-> linkOfRow(trs[k])]
  IN  findLink(links)

(***************************************************************************)
(* The inputs the extraction routines are evaluated on.                    *)
(***************************************************************************)

\* the longest figure, the most rows of a settlement infobox and of a country
\* infobox that are enumerated
MaxFigLen == 3

MaxRows == 3

MaxInfoboxRows == 3

\* all sequences over set of length 1..n
RECURSIVE SeqsUpTo(_, _)
SeqsUpTo(set, n) ==
  IF n = 0 THEN {}
  ELSE LET shorter == SeqsUpTo(set, n - 1)
       IN  {<<x>> : x \in set} \cup shorter \cup {s \o <<x>> : s \in shorter, x \in set}

FigChars == {"0", "7", ",", "."}

Figures == SeqsUpTo(FigChars, MaxFigLen)

\* what follows the figure in a data cell
Suffixes ==
  { <<>>,
    <<" ", "k", "m", "2">>,
    <<" ", "k", "m", "2", " ", "(", "x", ")">>,
    <<" ", "k", "m", "2", "\n", "x">>,
    <<"k", "m", "2">>,
    <<" ", "(", "x", ")">>,
    <<"\n", "(", "x", ")">>,
    <<" ", "(", "\n", ")">>,
    <<" ", "x">> }

\* the cell texts of the specification's examples
Example1 == <<"1", ",", "2", "3", "4", ",", "5", "6", "7">>

Example2 ==
  <<"8", "3", ",", "1", "6", "6", ",", "7", "1", "1", " ",
    "(", "2", "0", "2", "1", " ", "e", "s", "t", "i", "m", "a", "t", "e", ")">>

Example3 ==
  <<"3", "5", "7", ",", "0", "2", "1", " ", "k", "m", "2", " ",
    "(", "1", "3", "7", ",", "8", "4", "7", " ", "s", "q", " ", "m", "i", ")">>

CellTexts ==
  {f \o s : f \in Figures, s \in Suffixes}
    \cup {<<" ">> \o f \o s \o <<"\n">> : f \in Figures, s \in Suffixes}
    \cup {Example1, Example2, Example3}

\* the texts of a header cell
HeaderTexts ==
  { AreaLabel,
    PopulationLabel,
    <<"a", "r", "e", "a">>,
    <<"A", "r", "e", "a", " ", "r", "a", "n", "k">>,
    <<"T", "o", "t", "a", "l", " ", "P", "o", "p", "u", "l", "a", "t", "i", "o", "n">> }

\* a settlement infobox of one header row and one data row
ValueDocs ==
  { << [merged |-> TRUE, th |-> <<h>>, td |-> <<>>],
       [merged |-> FALSE, th |-> <<>>, td |-> <<c>>] >> : h \in HeaderTexts, c \in CellTexts }

\* the labels and the cells of the settlement infoboxes enumerated row by row
LabelOf(fn) == IF fn = "getArea" THEN AreaLabel ELSE PopulationLabel

BlockCells(fn) ==
  IF fn = "getArea"
    THEN << <<"1", " ", "k", "m", "2">>, <<"2", " ", "k", "m", "2">>, <<"x">> >>
    ELSE << <<"1">>, <<"2">>, <<"x">> >>

BlockRows(fn) ==
  LET c == BlockCells(fn)
  IN  [merged : BOOLEAN,
       th     : {<<>>, <<LabelOf(fn)>>, <<LabelOf(fn), LabelOf(fn)>>},
       td     : {<<>>, <<c[2]>>, <<c[3], c[1]>>}]

BlockDocs(fn) == SeqsUpTo(BlockRows(fn), MaxRows)

\* the anchors and the rows of a country infobox
Link1 == [cityName |-> "Berlin", cityUrl |-> "/wiki/Berlin"]

Link2 == [cityName |-> "Bonn", cityUrl |-> "/wiki/Bonn"]

InfoboxRows ==
  [text  : {CapitalLabel, <<"c", "a", "p", "i", "t", "a", "l">>,
            <<"C", "a", "p", "i", "t", "a", "l", "s">>},
   links : {<<>>, <<Link1>>, <<Link2>>, <<Link2, Link1>>}]

Infoboxes == {<<>>} \cup SeqsUpTo(InfoboxRows, MaxInfoboxRows)

EvalCalls ==
  [fn : {"capitalCity"}, infobox : Infoboxes]
    \cup [fn : {"getArea"}, doc : ValueDocs \cup BlockDocs("getArea")]
    \cup [fn : {"getPopulation"}, doc : ValueDocs \cup BlockDocs("getPopulation")]

(***************************************************************************)
(* The pages of a run.  The list page links the countries 1..n; the page  *)
(* of a country shows one of the country infoboxes below, the page of its *)
(* capital one of the settlement infoboxes.  Every selector can be        *)
(* evaluated on every page: a page has its wikitable links, its country   *)
(* infobox rows, its settlement infobox rows and its flag image.          *)
(***************************************************************************)

\* the most countries on the list page, and the most calls of scrapeCountries
\* a client makes
MaxCountries == 2

MaxScrapes == 2

startUrl == "https://en.wikipedia.org/wiki/List_of_European_countries_by_area"

BlankUrl == "about:blank"

CountryNames == <<"Germany", "France", "Italy", "Spain">>

CountryUrls == <<"/wiki/Germany", "/wiki/France", "/wiki/Italy", "/wiki/Spain">>

CityNames == <<"Berlin", "Paris", "Rome", "Madrid">>

CityUrls == <<"/wiki/Berlin", "/wiki/Paris", "/wiki/Rome", "/wiki/Madrid">>

CountryRef(k) == [countryName |-> CountryNames[k], countryUrl |-> CountryUrls[k]]

CityRef(k) == [cityName |-> CityNames[k], cityUrl |-> CityUrls[k]]

FlagSrc == <<"//upload.wikimedia.org/Flag.svg">>

\* the country infobox of country k: no row; a Capital row without anchor; a
\* Capital row with the anchor of the capital; a Capital row without anchor
\* followed by one with the anchor
CountryInfobox(v, k) ==
  LET bare   == [text |-> CapitalLabel, links |-> <<>>]
      linked == [text |-> CapitalLabel, links |-> <<CityRef(k)>>]
  IN  CASE v = 1 -> <<>>
        [] v = 2 -> <<bare>>
        [] v = 3 -> <<linked>>
        [] v = 4 -> <<bare, linked>>

AreaSection ==
  << [merged |-> TRUE, th |-> <<AreaLabel>>, td |-> <<>>],
     [merged |-> FALSE, th |-> <<>>, td |-> << <<"7", ",", "0", " ", "k", "m", "2">> >>] >>

PopulationSection ==
  << [merged |-> TRUE, th |-> <<PopulationLabel>>, td |-> <<>>],
     [merged |-> FALSE, th |-> <<>>, td |-> << <<"7", ",", "7", " ", "(", "x", ")">> >>] >>

EmptyPage == [links |-> <<>>, infobox |-> <<>>, doc |-> <<>>, flag |-> undefined]

\* the page of a capital: all three facts; no area; no fact at all, but a
\* wikitable that links the first country
CityPage(v) ==
  CASE v = 1 -> [EmptyPage EXCEPT !.doc = AreaSection \o PopulationSection, !.flag = FlagSrc]
    [] v = 2 -> [EmptyPage EXCEPT !.doc = PopulationSection, !.flag = FlagSrc]
    [] v = 3 -> [EmptyPage EXCEPT !.links = <<CountryRef(1)>>]

\* per country: the variant of its infobox and of the page of its capital
Variants == {v \in (1..4) \X (1..3) : v[1] \in {1, 2} => v[2] = 1}

Fixtures ==
  UNION {[n : {n}, variants : [1..n -> Variants]] : n \in 0..MaxCountries}

\* the document page.goto(u) loads
Page(fx, u) ==
  IF u = startUrl THEN [EmptyPage EXCEPT !.links = [k \in 1..fx.n |-> CountryRef(k)]]
  ELSE IF \E k \in 1..fx.n : u = CountryUrls[k]
    THEN LET k == CHOOSE j \in 1..fx.n : u = CountryUrls[j]
         IN  [EmptyPage EXCEPT !.infobox = CountryInfobox(fx.variants[k][1], k)]
  ELSE IF \E k \in 1..fx.n : u = CityUrls[k]
    THEN LET k == CHOOSE j \in 1..fx.n : u = CityUrls[j]
         IN  CityPage(fx.variants[k][2])
  ELSE EmptyPage

(***************************************************************************)
(* State                                                                   *)
(***************************************************************************)

VARIABLES
  fixture,            \* the pages of the run
  browser,            \* this.browser: "null", "open", or "closed" once close() ran
  page,               \* this.page: "null" or "open"
  location,           \* the address the page shows
  main,               \* the caller: the program's main run and where it stands, or "free"
  pc,                 \* where scrapeCountries stands: "idle", "loop" or "details"
  countries,          \* scrapeCountries: the country list
  cursor,             \* scrapeCountries: the place in the list of the country the loop is at
  capitalCity,        \* scrapeCountries: the capital link of that country
  citiesDetailsList,  \* scrapeCountries: the records so far
  startedAt,          \* the address the page showed when scrapeCountries was called
  fetched,            \* the page.goto calls of the current call of scrapeCountries
  results,            \* how each call of scrapeCountries ended
  call,               \* the routine under evaluation and its document
  ret                 \* what it returned

session == <<browser, page, location>>

locals == <<countries, cursor, capitalCity, citiesDetailsList, startedAt, fetched>>

eval == <<call, ret>>

vars == <<fixture, session, main, pc, locals, results, eval>>

NotYet == [done |-> FALSE]

NoCall == [fn |-> "none"]

(***************************************************************************)
(* The traversal                                                           *)
(***************************************************************************)

Init ==
  /\ fixture \in Fixtures
  /\ browser = "null"
  /\ page = "null"
  /\ location = BlankUrl
  /\ main \in {"free", "init"}
  /\ pc = "idle"
  /\ countries = <<>>
  /\ cursor = 1
  /\ capitalCity = null
  /\ citiesDetailsList = <<>>
  /\ startedAt = BlankUrl
  /\ fetched = <<>>
  /\ results = <<>>
  /\ call = NoCall
  /\ ret = NotYet

\* the caller may call method m: the main run in its turn, a free client any time
MayCall(m) == pc = "idle" /\ main \in {"free", m}

\* the main run after method m returned: init, scrapeCountries, close in a row
After(m) ==
  CASE main = "free" -> "free"
    [] m = "init"    -> "scrape"
    [] m = "scrape"  -> "close"
    [] m = "close"   -> "end"

\* the main run after a method threw: the rejection is not handled
Thrown == IF main = "free" THEN "free" ELSE "rejected"

\* this.browser after the launch of init, which runs when there is no browser yet
Launched == IF browser = "null" THEN "open" ELSE browser

\* init(): puppeteer.launch fails
initLaunchFails ==
  /\ MayCall("init")
  /\ browser = "null"
  /\ main' = Thrown
  /\ UNCHANGED <<fixture, session, pc, locals, results, eval>>

\* init(): browser.newPage fails, as it must on a closed browser
initNewPageFails ==
  /\ MayCall("init")
  /\ page = "null"
  /\ browser' = Launched
  /\ main' = Thrown
  /\ UNCHANGED <<fixture, page, location, pc, locals, results, eval>>

\* init(): page.goto(startUrl) fails, as it must on a closed browser
initGotoFails ==
  /\ MayCall("init")
  /\ page = "open" \/ Launched = "open"
  /\ browser' = Launched
  /\ page' = "open"
  /\ main' = Thrown
  /\ UNCHANGED <<fixture, location, pc, locals, results, eval>>

\* init(): the browser and the page are there and the page shows the list page
initOk ==
  /\ MayCall("init")
  /\ Launched = "open"
  /\ browser' = "open"
  /\ page' = "open"
  /\ location' = startUrl
  /\ main' = After("init")
  /\ UNCHANGED <<fixture, pc, locals, results, eval>>

init == initLaunchFails \/ initNewPageFails \/ initGotoFails \/ initOk

\* scrapeCountries() ends with an exception
Throw ==
  /\ pc' = "idle"
  /\ results' = Append(results, [status |-> "threw", from |-> startedAt', value |-> <<>>])
  /\ main' = Thrown

\* scrapeCountries(): 'Page is not initialized.', or the evaluation on the page
\* of a closed browser fails
scrapeCountriesThrows ==
  /\ MayCall("scrape")
  /\ Len(results) < MaxScrapes
  /\ page = "null" \/ browser = "closed"
  /\ startedAt' = location
  /\ fetched' = <<>>
  /\ Throw
  /\ UNCHANGED <<fixture, session, countries, cursor, capitalCity, citiesDetailsList, eval>>

\* scrapeCountries(): the country list is read from the page as it stands
scrapeCountriesBegin ==
  /\ MayCall("scrape")
  /\ Len(results) < MaxScrapes
  /\ page = "open" /\ browser = "open"
  /\ startedAt' = location
  /\ fetched' = <<>>
  /\ citiesDetailsList' = <<>>
  /\ countries' = Page(fixture, location).links
  /\ cursor' = 1
  /\ capitalCity' = null
  /\ pc' = "loop"
  /\ UNCHANGED <<fixture, session, main, results, eval>>

\* a loop that a country without capital link ends
gotoCountryMutant ==
  /\ pc = "loop"
  /\ cursor <= Len(countries)
  /\ LET url  == countries[cursor].countryUrl
         link == capitalCityLink(Page(fixture, url).infobox)
     IN  /\ location' = url
         /\ fetched' = Append(fetched, [url |-> url, ok |-> TRUE])
         /\ capitalCity' = link
         /\ IF link # null
              THEN pc' = "details" /\ cursor' = cursor
              ELSE pc' = "loop" /\ cursor' = Len(countries) + 1
  /\ UNCHANGED <<fixture, browser, page, main, countries, citiesDetailsList, startedAt,
                 results, eval>>

\* the loop: the page of the country is fetched and its capital link read;
\* without one the loop goes on to the next country
gotoCountry ==
  /\ pc = "loop"
  /\ cursor <= Len(countries)
  /\ LET url  == countries[cursor].countryUrl
         link == capitalCityLink(Page(fixture, url).infobox)
     IN  /\ location' = url
         /\ fetched' = Append(fetched, [url |-> url, ok |-> TRUE])
         /\ capitalCity' = link
         /\ IF link # null
              THEN pc' = "details" /\ cursor' = cursor
              ELSE pc' = "loop" /\ cursor' = cursor + 1
  /\ UNCHANGED <<fixture, browser, page, main, countries, citiesDetailsList, startedAt,
                 results, eval>>

\* a failed fetch that is caught: the country is passed over
gotoCountryFailsMutant ==
  /\ pc = "loop"
  /\ cursor <= Len(countries)
  /\ fetched' = Append(fetched, [url |-> countries[cursor].countryUrl, ok |-> FALSE])
  /\ cursor' = cursor + 1
  /\ UNCHANGED <<fixture, session, main, pc, countries, capitalCity, citiesDetailsList,
                 startedAt, results, eval>>

\* the loop: the fetch of the page of the country fails
gotoCountryFails ==
  /\ pc = "loop"
  /\ cursor <= Len(countries)
  /\ fetched' = Append(fetched, [url |-> countries[cursor].countryUrl, ok |-> FALSE])
  /\ UNCHANGED startedAt
  /\ Throw
  /\ UNCHANGED <<fixture, session, countries, cursor, capitalCity, citiesDetailsList, eval>>

\* the record scrapeCityDetails makes of the page of the capital
Details(city, country, doc, flag) ==
  [name         |-> city.cityName,
   url          |-> city.cityUrl,
   country      |-> country.countryName,
   area         |-> getArea(doc),
   population   |-> getPopulation(doc),
   flagIconPath |-> flag]

\* a record put in front of the list instead of at its end
scrapeCityDetailsMutant ==
  /\ pc = "details"
  /\ LET url == capitalCity.cityUrl
         doc == Page(fixture, url)
     IN  /\ location' = url
         /\ fetched' = Append(fetched, [url |-> url, ok |-> TRUE])
         /\ citiesDetailsList' =
              <<Details(capitalCity, countries[cursor], doc.doc, doc.flag)>> \o citiesDetailsList
  /\ cursor' = cursor + 1
  /\ pc' = "loop"
  /\ UNCHANGED <<fixture, browser, page, main, countries, capitalCity, startedAt,
                 results, eval>>

\* scrapeCityDetails(): the page of the capital is fetched, its details are
\* read, and the one record returned is pushed on the list
scrapeCityDetails ==
  /\ pc = "details"
  /\ LET url == capitalCity.cityUrl
         doc == Page(fixture, url)
     IN  /\ location' = url
         /\ fetched' = Append(fetched, [url |-> url, ok |-> TRUE])
         /\ LET list     == <<Details(capitalCity, countries[cursor], doc.doc, doc.flag)>>
                returned == IF Len(list) > 0 THEN list ELSE <<>>
            IN  citiesDetailsList' = citiesDetailsList \o returned
  /\ cursor' = cursor + 1
  /\ pc' = "loop"
  /\ UNCHANGED <<fixture, browser, page, main, countries, capitalCity, startedAt,
                 results, eval>>

\* scrapeCityDetails(): the fetch of the page of the capital fails
scrapeCityDetailsFails ==
  /\ pc = "details"
  /\ fetched' = Append(fetched, [url |-> capitalCity.cityUrl, ok |-> FALSE])
  /\ UNCHANGED startedAt
  /\ Throw
  /\ UNCHANGED <<fixture, session, countries, cursor, capitalCity, citiesDetailsList, eval>>

\* scrapeCountries(): the loop is over and the list is returned
scrapeCountriesReturns ==
  /\ pc = "loop"
  /\ cursor > Len(countries)
  /\ pc' = "idle"
  /\ results' = Append(results, [status |-> "returned", from |-> startedAt,
                                 value |-> citiesDetailsList])
  /\ main' = After("scrape")
  /\ UNCHANGED <<fixture, session, locals, eval>>

\* close(): the browser, when there is one, is closed
close ==
  /\ MayCall("close")
  /\ browser' = IF browser # "null" THEN "closed" ELSE browser
  /\ main' = After("close")
  /\ UNCHANGED <<fixture, page, location, pc, locals, results, eval>>

Next ==
  \/ init
  \/ scrapeCountriesThrows
  \/ scrapeCountriesBegin
  \/ gotoCountry
  \/ gotoCountryFails
  \/ scrapeCityDetails
  \/ scrapeCityDetailsFails
  \/ scrapeCountriesReturns
  \/ close

Spec == Init /\ [][Next]_vars

(***************************************************************************)
(* The extraction routines, each evaluated once on a document.             *)
(***************************************************************************)

InitEval ==
  /\ call \in EvalCalls
  /\ ret = NotYet
  /\ fixture = [n |-> 0, variants |-> <<>>]
  /\ browser = "null"
  /\ page = "null"
  /\ location = BlankUrl
  /\ main = "free"
  /\ pc = "idle"
  /\ countries = <<>>
  /\ cursor = 1
  /\ capitalCity = null
  /\ citiesDetailsList = <<>>
  /\ startedAt = BlankUrl
  /\ fetched = <<>>
  /\ results = <<>>

others == <<fixture, session, main, pc, locals, results>>

EvalCapitalCity ==
  /\ call.fn = "capitalCity"
  /\ ~ret.done
  /\ ret' = [done |-> TRUE, value |-> capitalCityLink(call.infobox)]
  /\ UNCHANGED <<call, others>>

EvalGetArea ==
  /\ call.fn = "getArea"
  /\ ~ret.done
  /\ ret' = [done |-> TRUE, value |-> getArea(call.doc),
             rows |-> collectedRows(call.doc, AreaLabel)]
  /\ UNCHANGED <<call, others>>

EvalGetPopulation ==
  /\ call.fn = "getPopulation"
  /\ ~ret.done
  /\ ret' = [done |-> TRUE, value |-> getPopulation(call.doc),
             rows |-> collectedRows(call.doc, PopulationLabel)]
  /\ UNCHANGED <<call, others>>

NextEval == EvalCapitalCity \/ EvalGetArea \/ EvalGetPopulation

SpecEval == InitEval /\ [][NextEval]_vars

(***************************************************************************)
(* Properties of the extraction routines (under SpecEval).                 *)
(***************************************************************************)

IsValueCall == call.fn \in {"getArea", "getPopulation"}

\* the value pattern of the routine, applied as the filter applies it
Matches(fn, td) == IF fn = "getArea" THEN areaRegex(trim(td)) ELSE populationRegex(trim(td))

\* row h holds a header of the label, under the mergedtoprow marker
IsHeader(doc, label, h) ==
  doc[h].merged /\ \E k \in 1..Len(doc[h].th) : includes(doc[h].th[k], label)

\* row r lies in the section opened by row h
InSection(doc, h, r) == h <= r /\ \A j \in (h + 1)..r : ~doc[j].merged

\* the places <<row, cell>> of the matching data cells in the sections of the label
MatchingPlaces(fn, doc) ==
  {p \in (1..Len(doc)) \X (1..2) :
     /\ p[2] <= Len(doc[p[1]].td)
     /\ Matches(fn, doc[p[1]].td[p[2]])
     /\ \E h \in 1..p[1] : IsHeader(doc, LabelOf(fn), h) /\ InSection(doc, h, p[1])}

Before(p, q) == p[1] < q[1] \/ (p[1] = q[1] /\ p[2] <= q[2])

FirstPlace(places) == CHOOSE p \in places : \A q \in places : Before(p, q)

\* a text that reads as a number: digits, at most with a decimal point
IsNumericText(t) ==
  /\ \A i \in 1..Len(t) : t[i] \in DigitSet \cup {"."}
  /\ \E i \in 1..Len(t) : t[i] \in DigitSet

\* C2 (as claimed): getValueByLabel returns undefined when no header has the
\* label, when no data cell of the blocks matches the pattern and when the
\* matched text does not parse as a number; what it returns otherwise is the
\* text of a number, never a text that is none.
C2_AbsentOrNumeric ==
  (ret.done /\ IsValueCall) =>
    LET places == MatchingPlaces(call.fn, call.doc)
    IN  /\ places = {} => ret.value = undefined
        /\ places # {} =>
             LET p == FirstPlace(places)
                 t == trim(call.doc[p[1]].td[p[2]])
             IN  parseFloat(removeCommas(t)).nan => ret.value = undefined
        /\ ret.value # undefined => IsNumericText(ret.value)

\* the rows of the country infobox whose text has 'Capital'
CapitalRows(infobox) == {i \in 1..Len(infobox) : includes(infobox[i].text, CapitalLabel)}

\* C3 (as claimed): the first row with 'Capital' in its text decides: its first
\* anchor is returned, and nothing is when it has no anchor or no row qualifies.
C3_FirstCapitalRowDecides ==
  (ret.done /\ call.fn = "capitalCity") =>
    LET rows == CapitalRows(call.infobox)
    IN  IF rows = {} THEN ret.value = null
        ELSE LET f == CHOOSE i \in rows : \A j \in rows : i <= j
             IN  ret.value =
                   (IF call.infobox[f].links = <<>> THEN null ELSE call.infobox[f].links[1])

\* C3 (amended): the result is the first anchor of the first row that has
\* 'Capital' in its text and an anchor; nothing is returned exactly when no
\* row with 'Capital' in its text has an anchor.
C3_FirstAnchoredCapitalRow ==
  (ret.done /\ call.fn = "capitalCity") =>
    LET rows == {i \in CapitalRows(call.infobox) : call.infobox[i].links # <<>>}
    IN  /\ ret.value = null <=> rows = {}
        /\ ret.value # null =>
             \E i \in rows : /\ ret.value = call.infobox[i].links[1]
                             /\ \A j \in rows : i <= j

C3_Witness ==
  /\ ret.done
  /\ call.fn = "capitalCity"
  /\ ret.value # null
  /\ \E i, j \in CapitalRows(call.infobox) :
       /\ i < j
       /\ call.infobox[i].links = <<>>
       /\ call.infobox[j].links # <<>>
       /\ Len(call.infobox[j].links) = 2

\* the rows h..e, e the last row before the next mergedtoprow row after h
SectionOf(doc, h) ==
  LET e == CHOOSE r \in h..Len(doc) :
             InSection(doc, h, r) /\ (r = Len(doc) \/ doc[r + 1].merged)
  IN  [i \in 1..(e - h + 1) |-> h + i - 1]

\* the number of header cells of the label in row h
HeadersIn(doc, label, h) ==
  IF doc[h].merged
    THEN Cardinality({k \in 1..Len(doc[h].th) : includes(doc[h].th[k], label)})
    ELSE 0

RECURSIVE Repeat(_, _)
Repeat(rows, n) == IF n = 0 THEN <<>> ELSE rows \o Repeat(rows, n - 1)

\* the sections of the headers of the label, header cell after header cell
RECURSIVE Sections(_, _, _)
Sections(doc, label, from) ==
  IF from > Len(doc) THEN <<>>
  ELSE Repeat(SectionOf(doc, from), HeadersIn(doc, label, from))
         \o Sections(doc, label, from + 1)

\* C7: the block of a header is its row and the sibling rows after it up to,
\* not including, the next row with the mergedtoprow marker (or up to the last
\* row); the rows collected are these blocks, header after header.
C7_BlockIsSection ==
  (ret.done /\ IsValueCall) =>
    /\ ret.rows = Sections(call.doc, LabelOf(call.fn), 1)
    /\ \A h \in 1..Len(call.doc) :
         IsHeader(call.doc, LabelOf(call.fn), h) =>
           /\ \E i \in 1..Len(ret.rows) : ret.rows[i] = h
           /\ \A r \in (h + 1)..Len(call.doc) :
                (\E i \in 1..Len(ret.rows) : ret.rows[i] = r) =>
                  \E g \in 1..r : IsHeader(call.doc, LabelOf(call.fn), g)
                                    /\ InSection(call.doc, g, r)

C7_Witness ==
  /\ ret.done
  /\ IsValueCall
  /\ Len(call.doc) = 3
  /\ IsHeader(call.doc, LabelOf(call.fn), 1)
  /\ ~call.doc[2].merged
  /\ call.doc[3].merged
  /\ ~IsHeader(call.doc, LabelOf(call.fn), 3)
  /\ ret.rows = <<1, 2>>

\* C8: the result is made of the first data cell, in document order over all
\* the blocks, that matches the pattern, and of no later one.
C8_FirstMatchingCell ==
  (ret.done /\ IsValueCall) =>
    LET places == MatchingPlaces(call.fn, call.doc)
    IN  IF places = {} THEN ret.value = undefined
        ELSE LET p == FirstPlace(places)
             IN  ret.value = valueOf(trim(call.doc[p[1]].td[p[2]]))

C8_Witness ==
  /\ ret.done
  /\ IsValueCall
  /\ \E p, q \in MatchingPlaces(call.fn, call.doc) :
       /\ p[1] < q[1]
       /\ IsHeader(call.doc, LabelOf(call.fn), q[1])
       /\ call.doc[p[1]].td[p[2]] # call.doc[q[1]].td[q[2]]
       /\ ret.value = valueOf(trim(call.doc[p[1]].td[p[2]]))
       /\ ret.value # valueOf(trim(call.doc[q[1]].td[q[2]]))

\* a figure written with thousands separators: digits and commas, opening
\* with a digit other than zero
IsSeparatedFigure(f) ==
  /\ f # <<>>
  /\ f[1] \in DigitSet \ {"0"}
  /\ \A i \in 1..Len(f) : f[i] \in DigitSet \cup {","}

DigitsOnly(f) == SelectSeq(f, LAMBDA c : c \in DigitSet)

\* C9: when the matched cell opens with a figure with thousands separators,
\* the result is the digits of that figure, the separators and all that
\* follows the figure dropped; so for the three examples of the specification.
C9_FigureWithoutSeparators ==
  (ret.done /\ IsValueCall) =>
    LET places == MatchingPlaces(call.fn, call.doc)
    IN  places # {} =>
          LET p == FirstPlace(places)
              t == trim(call.doc[p[1]].td[p[2]])
              f == SubSeq(t, 1, RunLen(t, 1, NumChars))
          IN  /\ IsSeparatedFigure(f) => ret.value = DigitsOnly(f)
              /\ t = Example1 => ret.value = <<"1", "2", "3", "4", "5", "6", "7">>
              /\ t = Example2 => ret.value = <<"8", "3", "1", "6", "6", "7", "1", "1">>
              /\ t = Example3 => ret.value = <<"3", "5", "7", "0", "2", "1">>

C9_Witness ==
  /\ ret.done
  /\ call.fn = "getArea"
  /\ Len(call.doc) = 2
  /\ call.doc[2].td = <<Example3>>
  /\ ret.value = <<"3", "5", "7", "0", "2", "1">>

(***************************************************************************)
(* Properties of the traversal (under Spec).                               *)
(***************************************************************************)

\* the last call of scrapeCountries returned, and no other has begun since
Returned ==
  /\ pc = "idle"
  /\ results # <<>>
  /\ results[Len(results)].status = "returned"

Output == results[Len(results)].value

\* the anchors of the Capital rows of the page of the country at place k of the list
CapitalAnchors(k) ==
  LET box == Page(fixture, countries[k].countryUrl).infobox
  IN  {box[r].links[1] : r \in {q \in CapitalRows(box) : box[q].links # <<>>}}

RecordsOf(k) == {j \in 1..Len(Output) : Output[j].country = countries[k].countryName}

\* C1: the output of scrapeCountries holds one record for every country of the
\* list whose page has a capital link and none for any other, so it is no
\* longer than the list; a country without a capital link is passed over and
\* the countries after it are still visited.
C1_OneRecordPerCapital ==
  Returned =>
    /\ Len(Output) <= Len(countries)
    /\ \A k \in 1..Len(countries) :
         Cardinality(RecordsOf(k)) = IF CapitalAnchors(k) # {} THEN 1 ELSE 0
    /\ \A j \in 1..Len(Output) : \E k \in 1..Len(countries) : j \in RecordsOf(k)
    /\ Len(fetched) >= Len(countries)

C1_Witness ==
  /\ Returned
  /\ Len(countries) = 2
  /\ CapitalAnchors(1) = {}
  /\ CapitalAnchors(2) # {}
  /\ Len(Output) = 1
  /\ Output[1].country = countries[2].countryName

\* C4 (as claimed): any two calls of scrapeCountries that return, over the
\* same pages, return the same sequence, wherever the page stood at the call.
C4_RunsAgree ==
  \A a, b \in 1..Len(results) :
    (results[a].status = "returned" /\ results[b].status = "returned") =>
      results[a].value = results[b].value

\* C5: a failed fetch is the last thing a call of scrapeCountries does: the
\* call ends with the exception, nothing is fetched after it, the records it
\* had are not handed to the caller, and the main run is rejected.
C5_FetchFailureAborts ==
  \A k \in 1..Len(fetched) :
    ~fetched[k].ok =>
      /\ k = Len(fetched)
      /\ pc = "idle"
      /\ results # <<>>
      /\ results[Len(results)].status = "threw"
      /\ results[Len(results)].value = <<>>
      /\ main \in {"free", "rejected"}

C5_Witness ==
  /\ Len(fetched) >= 3
  /\ ~fetched[Len(fetched)].ok
  /\ citiesDetailsList # <<>>
  /\ pc = "idle"
  /\ results[Len(results)].status = "threw"
  /\ main = "rejected"

\* the place of a country in the list
PlaceOf(name) == CHOOSE k \in 1..Len(countries) : countries[k].countryName = name

\* C6: the records come in the order of the country list, and the record of a
\* country names that country and the capital its page links.
C6_CountryListOrder ==
  Returned =>
    /\ \A j \in 1..Len(Output) :
         /\ \E k \in 1..Len(countries) : countries[k].countryName = Output[j].country
         /\ \E a \in CapitalAnchors(PlaceOf(Output[j].country)) :
              Output[j].name = a.cityName /\ Output[j].url = a.cityUrl
    /\ \A j, l \in 1..Len(Output) :
         j < l => PlaceOf(Output[j].country) < PlaceOf(Output[l].country)

C6_Witness ==
  /\ Returned
  /\ Len(Output) = 2
  /\ Output[1].country = countries[1].countryName
  /\ Output[2].country = countries[2].countryName
  /\ Output[1].area # Output[2].area

\* C10 (as claimed): when the main run has ended, by close returning or by an
\* exception of init or scrapeCountries on a page fetch (the page is there
\* then), no browser is left open.
C10_BrowserClosedAtEnd ==
  (main = "end" \/ (main = "rejected" /\ page = "open")) => browser # "open"

====
